---- MODULE Spec2Model ----
(***************************************************************************)
(* A model of codebase_rag.py: chunking, the embedding index and its       *)
(* cache, similarity ranking and the token-budgeted prompt assembly.       *)
(*                                                                         *)
(* Text is modelled as a sequence of one-character strings, so that        *)
(* len(), slicing and concatenation are those of Python's str.             *)
(***************************************************************************)
EXTENDS Integers, Sequences, FiniteSets, TLC

VARIABLES
    chunk_call,     \* one call of chunk_file_text: its arguments, position, result
    prompt_call,    \* one call of generate_enhanced_prompt: arguments, position, result
    tree,           \* the repository's working tree, in the order os.walk yields it
    embed_file,     \* embedding_output_<repo>.json on disk
    global_embeddings_data,   \* the module-level in-memory index
    workers,        \* the run_processing threads, by the load that started them
    ui,             \* the main thread: idle, or inside the askyesno dialog
    recent,         \* recent_repos.json
    cloned,         \* whether the repository's local path exists
    loads,          \* calls of start_embedding_thread that reached the cache check
    touches,        \* modifications of the tree so far
    file_built_at,  \* the value of touches when the load began whose thread
                    \* wrote embed_file last
    cancel_requested,   \* the threads a cancellation has been requested for
    button_call,    \* one call of generate_prompt_button: inputs, position, effects
    hash_call,      \* calls of compute_repo_hash: the trees hashed and the results
    recent_call,    \* calls of add_repo_to_recent: the last one and its result
    cosine_call,    \* one call of cosine_similarity: its arguments and result
    chat            \* chat-with-local-llm.py: the waiting flag and the requests

chunkVars == <<chunk_call>>
promptVars == <<prompt_call>>
callVars == <<chunk_call, prompt_call, button_call, hash_call, recent_call,
              cosine_call, chat>>
storeVars == <<tree, embed_file, global_embeddings_data, workers, ui, recent, cloned,
               loads, touches, file_built_at, cancel_requested>>
vars == <<chunk_call, prompt_call, button_call, hash_call, recent_call, cosine_call, chat, tree,
          embed_file, global_embeddings_data, workers, ui, recent, cloned, loads,
          touches, file_built_at, cancel_requested>>

\* The value of a variable that a specification does not use
Idle == [pc |-> "idle"]

\* Neither are cosine_similarity alone and the chat client
OthersUnused == cosine_call = Idle /\ chat = Idle

\* The index store is not part of a specification of a single function
StoreUnused ==
    /\ tree = <<>>
    /\ embed_file = Idle
    /\ global_embeddings_data = <<>>
    /\ workers = <<>>
    /\ ui = Idle
    /\ recent = <<>>
    /\ cloned = FALSE
    /\ loads = 0
    /\ touches = 0
    /\ file_built_at = 0
    /\ cancel_requested = {}

(***************************************************************************)
(* Python primitives                                                       *)
(***************************************************************************)
Min(a, b) == IF a <= b THEN a ELSE b
Max(a, b) == IF a >= b THEN a ELSE b

\* s[i:j] for 0 <= i
PySlice(s, i, j) ==
    LET hi == IF j < 0 THEN Max(Len(s) + j, 0) ELSE Min(j, Len(s))
    IN  IF i >= hi THEN <<>> ELSE SubSeq(s, i + 1, hi)

\* s[:n]; a negative n counts from the end of s
PySliceTo(s, n) == PySlice(s, 0, n)

\* list(range(i, stop, step)) for step > 0
RECURSIVE PyRange(_, _, _)
PyRange(i, stop, step) ==
    IF i >= stop THEN <<>> ELSE <<i>> \o PyRange(i + step, stop, step)

\* "".join(seqs)
RECURSIVE Concat(_)
Concat(seqs) ==
    IF seqs = <<>> THEN <<>> ELSE Head(seqs) \o Concat(Tail(seqs))

\* All sequences over S of length at most n
RECURSIVE SeqsUpTo(_, _)
SeqsUpTo(S, n) ==
    IF n = 0 THEN {<<>>}
    ELSE LET shorter == SeqsUpTo(S, n - 1)
         IN  shorter \cup {Append(s, x) : s \in {t \in shorter : Len(t) = n - 1}, x \in S}

(***************************************************************************)
(* chunk_file_text                                                         *)
(***************************************************************************)
\* Faulty variant: the whole-file branch is missing, every text goes through range()
chunk_file_text_always_slices(text, max_chars) ==
    LET starts == PyRange(0, Len(text), max_chars)
    IN  [k \in DOMAIN starts |-> PySlice(text, starts[k], starts[k] + max_chars)]

\* Faulty variant: each slice runs one character into the next one
chunk_file_text_overlapping(text, max_chars) ==
    IF Len(text) <= max_chars THEN <<text>>
    ELSE LET starts == PyRange(0, Len(text), max_chars)
         IN  [k \in DOMAIN starts |->
                 PySlice(text, starts[k], starts[k] + max_chars + 1)]

chunk_file_text(text, max_chars) ==
    IF Len(text) <= max_chars THEN <<text>>
    ELSE LET starts == PyRange(0, Len(text), max_chars)
         IN  [k \in DOMAIN starts |-> PySlice(text, starts[k], starts[k] + max_chars)]

(***************************************************************************)
(* Specification SpecChunk: chunk_file_text applied to every text over a   *)
(* two-letter alphabet up to MaxTextLen and every chunk size up to         *)
(* MaxChunkChars.  A chunk size is a positive number of characters.        *)
(***************************************************************************)
MaxTextLen == 6
MaxChunkChars == 4

ChunkTexts == SeqsUpTo({"a", "b"}, MaxTextLen)

InitChunk ==
    \E t \in ChunkTexts, m \in 1..MaxChunkChars :
        /\ chunk_call = [text |-> t, max_chars |-> m, pc |-> "call", chunks |-> <<>>]
        /\ prompt_call = Idle
        /\ StoreUnused
        /\ button_call = Idle
        /\ hash_call = Idle
        /\ recent_call = Idle
        /\ OthersUnused

ChunkFileText ==
    /\ chunk_call.pc = "call"
    /\ chunk_call' = [chunk_call EXCEPT
           !.pc = "done",
           !.chunks = chunk_file_text(chunk_call.text, chunk_call.max_chars)]
    /\ UNCHANGED <<promptVars, button_call, hash_call, recent_call, cosine_call, chat, storeVars>>

NextChunk == ChunkFileText

SpecChunk == InitChunk /\ [][NextChunk]_vars

CeilDiv(n, d) == (n + d - 1) \div d

\* C6: a text no longer than max_chars comes back as the single chunk [text].
C6_ShortTextIsOneChunk ==
    (chunk_call.pc = "done" /\ Len(chunk_call.text) <= chunk_call.max_chars)
        => chunk_call.chunks = <<chunk_call.text>>

C6_Witness ==
    /\ chunk_call.pc = "done"
    /\ Len(chunk_call.text) = chunk_call.max_chars
    /\ chunk_call.chunks = <<chunk_call.text>>

\* C7: a text of N > max_chars characters is cut into ceil(N / max_chars)
\* consecutive, non-overlapping slices, all but the last of exactly max_chars
\* characters, whose concatenation is the text.
C7_LongTextIsSliced ==
    LET T == chunk_call.text
        N == Len(T)
        m == chunk_call.max_chars
        cs == chunk_call.chunks
    IN  (chunk_call.pc = "done" /\ N > m) =>
            /\ Len(cs) = CeilDiv(N, m)
            /\ \A k \in 1..(Len(cs) - 1) : Len(cs[k]) = m
            /\ \A k \in 1..Len(cs) :
                   cs[k] = SubSeq(T, (k - 1) * m + 1, Min(k * m, N))
            /\ Len(cs[Len(cs)]) >= 1
            /\ Concat(cs) = T

C7_Witness ==
    /\ chunk_call.pc = "done"
    /\ Len(chunk_call.text) = 5
    /\ chunk_call.max_chars = 2
    /\ Len(chunk_call.chunks) = 3
    /\ Len(chunk_call.chunks[3]) = 1

(***************************************************************************)
(* Text constants of the prompt, and str() of a chunk index                *)
(***************************************************************************)
HeaderPre == <<"U", "s", "e", "r", " ", "Q", "u", "e", "r", "y", ":", "\n">>
HeaderPost ==
    <<"\n", "\n", "R", "e", "l", "e", "v", "a", "n", "t", " ", "C", "o", "d", "e",
      " ", "C", "o", "n", "t", "e", "x", "t", ":", "\n">>
FooterPre ==
    <<"\n", "\n", "C", "u", "s", "t", "o", "m", " ", "I", "n", "s", "t", "r", "u",
      "c", "t", "i", "o", "n", "s", ":", "\n">>
FilePre == <<"F", "i", "l", "e", ":", " ">>
ChunkPre == <<" ", "(", "C", "h", "u", "n", "k", " ">>
ChunkPost == <<")", ":", "\n">>
RenderEnd == <<"\n", "\n">>

Digits == <<"0", "1", "2", "3", "4", "5", "6", "7", "8", "9">>

\* str(n) for an integer n >= 0
RECURSIVE PyStr(_)
PyStr(n) ==
    IF n < 10 THEN <<Digits[n + 1]>>
    ELSE PyStr(n \div 10) \o <<Digits[(n % 10) + 1]>>

\* The absent value None
None == "None"

(***************************************************************************)
(* cosine_similarity.  Embeddings are integer vectors; the value           *)
(* dot / (norm1 * norm2) is kept exactly as num / sqrt(den2), and the      *)
(* early return 0 as 0 / sqrt(1).                                          *)
(***************************************************************************)
RECURSIVE Dot(_, _)
Dot(v, w) ==
    IF v = <<>> \/ w = <<>> THEN 0
    ELSE Head(v) * Head(w) + Dot(Tail(v), Tail(w))

\* norm(v)^2
NormSq(v) == Dot(v, v)

\* Faulty variant: the norms are not compared with 0 before the division
cosine_similarity_unguarded(vec1, vec2) ==
    IF Len(vec1) # Len(vec2) THEN [num |-> 0, den2 |-> 1, raised |-> TRUE]
    ELSE [num |-> Dot(vec1, vec2), den2 |-> NormSq(vec1) * NormSq(vec2),
          raised |-> FALSE]

\* raised: np.dot raises ValueError for two vectors of different lengths;
\* den2 = 0 would be a division by zero
cosine_similarity(vec1, vec2) ==
    IF NormSq(vec1) = 0 \/ NormSq(vec2) = 0
    THEN [num |-> 0, den2 |-> 1, raised |-> FALSE]
    ELSE IF Len(vec1) # Len(vec2) THEN [num |-> 0, den2 |-> 1, raised |-> TRUE]
    ELSE [num |-> Dot(vec1, vec2), den2 |-> NormSq(vec1) * NormSq(vec2),
          raised |-> FALSE]

Abs(x) == IF x < 0 THEN -x ELSE x

\* a < b for two similarities:  a.num/sqrt(a.den2) < b.num/sqrt(b.den2)
SimLess(a, b) == a.num * Abs(a.num) * b.den2 < b.num * Abs(b.num) * a.den2

SimEqual(a, b) == ~SimLess(a, b) /\ ~SimLess(b, a)

(***************************************************************************)
(* results.sort(key=lambda x: x[0], reverse=True): a stable sort, so       *)
(* entries of equal similarity keep the order of the index.                *)
(***************************************************************************)
\* Faulty variant: an entry is put in front of the entries of equal similarity
RECURSIVE InsertDescTiesFirst(_, _)
InsertDescTiesFirst(sorted, e) ==
    IF sorted = <<>> THEN <<e>>
    ELSE IF SimLess(e[1], Head(sorted)[1])
         THEN <<Head(sorted)>> \o InsertDescTiesFirst(Tail(sorted), e)
         ELSE <<e>> \o sorted

\* e goes behind every entry whose similarity is at least its own
RECURSIVE InsertDesc(_, _)
InsertDesc(sorted, e) ==
    IF sorted = <<>> THEN <<e>>
    ELSE IF SimLess(Head(sorted)[1], e[1])
         THEN <<e>> \o sorted
         ELSE <<Head(sorted)>> \o InsertDesc(Tail(sorted), e)

RECURSIVE SortDescFrom(_, _)
SortDescFrom(sorted, rest) ==
    IF rest = <<>> THEN sorted
    ELSE SortDescFrom(InsertDesc(sorted, Head(rest)), Tail(rest))

RECURSIVE SortDescUnstableFrom(_, _)
SortDescUnstableFrom(sorted, rest) ==
    IF rest = <<>> THEN sorted
    ELSE SortDescUnstableFrom(InsertDescTiesFirst(sorted, Head(rest)), Tail(rest))

\* Faulty variant: a descending sort that does not keep the order of ties
RankResultsUnstable(query_embedding, embeddings_data) ==
    SortDescUnstableFrom(<<>>,
        [k \in DOMAIN embeddings_data |->
            <<cosine_similarity(query_embedding, embeddings_data[k].embedding),
              embeddings_data[k]>>])

\* The loop that scores every item, and the sort
RankResults(query_embedding, embeddings_data) ==
    SortDescFrom(<<>>,
        [k \in DOMAIN embeddings_data |->
            <<cosine_similarity(query_embedding, embeddings_data[k].embedding),
              embeddings_data[k]>>])

(***************************************************************************)
(* generate_enhanced_prompt                                                *)
(***************************************************************************)
\* len(s) // 4, the token count the function uses
TokensOf(s) == Len(s) \div 4

\* f"User Query:\n{query_text}\n\nRelevant Code Context:\n"
Header(query_text) == HeaderPre \o query_text \o HeaderPost

\* f"\n\nCustom Instructions:\n{custom_instructions}"
Footer(custom_instructions) == FooterPre \o custom_instructions

\* f"File: {item['file']} (Chunk {item['chunk_index']}):\n{item['chunk']}\n\n"
RenderChunk(item) ==
    FilePre \o item.file \o ChunkPre \o PyStr(item.chunk_index) \o ChunkPost
        \o item.chunk \o RenderEnd

\* [item for _, item in results]
ItemsOf(results) == [k \in DOMAIN results |-> results[k][2]]

\* full_context: every ranked chunk rendered
FullContext(results) == Concat([k \in DOMAIN results |-> RenderChunk(results[k][2])])

\* Faulty variant: the whole-corpus branch never checks the token limit
SelectItemsNoLimitCheck(results, header, footer, top_k, max_prompt_tokens, include_entire_codebase) ==
    IF include_entire_codebase
    THEN [selected_items |-> ItemsOf(results), warned |-> FALSE]
    ELSE [selected_items |-> ItemsOf(PySliceTo(results, top_k)), warned |-> FALSE]

\* Faulty variant: the top-k slice is one entry too long
SelectItemsOneMore(results, header, footer, top_k, max_prompt_tokens, include_entire_codebase) ==
    IF include_entire_codebase
    THEN IF TokensOf(header \o FullContext(results) \o footer) > max_prompt_tokens
         THEN [selected_items |-> ItemsOf(PySliceTo(results, top_k + 1)),
               warned |-> TRUE]
         ELSE [selected_items |-> ItemsOf(results), warned |-> FALSE]
    ELSE [selected_items |-> ItemsOf(PySliceTo(results, top_k + 1)), warned |-> FALSE]

\* The selection policy; warned: messagebox.showwarning("Token Limit Exceeded")
SelectItems(results, header, footer, top_k, max_prompt_tokens, include_entire_codebase) ==
    IF include_entire_codebase
    THEN IF TokensOf(header \o FullContext(results) \o footer) > max_prompt_tokens
         THEN [selected_items |-> ItemsOf(PySliceTo(results, top_k)), warned |-> TRUE]
         ELSE [selected_items |-> ItemsOf(results), warned |-> FALSE]
    ELSE [selected_items |-> ItemsOf(PySliceTo(results, top_k)), warned |-> FALSE]

\* The loop over selected_items: context_text once the loop has ended
RECURSIVE FillContext(_, _, _)
FillContext(items, available_tokens, context_text) ==
    IF items = <<>> THEN context_text
    ELSE LET chunk_text == RenderChunk(Head(items))
             chunk_tokens == TokensOf(chunk_text)
         IN  IF available_tokens - chunk_tokens >= 0
             THEN FillContext(Tail(items), available_tokens - chunk_tokens,
                              context_text \o chunk_text)
             ELSE context_text \o PySliceTo(chunk_text, available_tokens * 4)

\* query_embedding is what embed_chunk(query_text) returned.  The result
\* carries, beside the returned string, the message boxes shown and the
\* function's locals results, selected_items and context_text.
generate_enhanced_prompt(query_text, query_embedding, embeddings_data, custom_instructions, top_k, max_prompt_tokens, include_entire_codebase) ==
    IF query_embedding = None
    THEN [prompt |-> <<>>, error |-> TRUE, warned |-> FALSE, results |-> <<>>,
          selected_items |-> <<>>, context_text |-> <<>>]
    ELSE LET results == RankResults(query_embedding, embeddings_data)
             header == Header(query_text)
             footer == Footer(custom_instructions)
             sel == SelectItems(results, header, footer, top_k, max_prompt_tokens,
                                include_entire_codebase)
             base_token_count == TokensOf(header \o footer)
             context_text == FillContext(sel.selected_items,
                                         max_prompt_tokens - base_token_count, <<>>)
         IN  [prompt |-> header \o context_text \o footer, error |-> FALSE,
              warned |-> sel.warned, results |-> results,
              selected_items |-> sel.selected_items, context_text |-> context_text]

(***************************************************************************)
(* Specification SpecPrompt: generate_enhanced_prompt applied to every     *)
(* index of up to MaxCorpus distinct chunk records, every outcome of the   *)
(* query embedding, top_k up to MaxTopK and a range of token limits.       *)
(***************************************************************************)
MaxCorpus == 3
MaxTopK == 3

PathA == <<"a", ".", "p", "y">>
PathB == <<"b", ".", "p", "y">>

\* Chunk records: equal, different and opposite directions, several lengths
ItemPool ==
    { [file |-> PathA, chunk_index |-> 0, chunk |-> <<"d", "e", "f">>,
       embedding |-> <<1, 0>>],
      [file |-> PathA, chunk_index |-> 1, chunk |-> <<"x", "\n">>,
       embedding |-> <<0, 1>>],
      [file |-> PathB, chunk_index |-> 0,
       chunk |-> <<"i", "m", "p", "o", "r", "t", " ">>, embedding |-> <<2, 0>>],
      [file |-> PathB, chunk_index |-> 10, chunk |-> <<"z">>,
       embedding |-> <<-1, 0>>] }

\* The indices: sequences of distinct records
Corpora ==
    {c \in SeqsUpTo(ItemPool, MaxCorpus) :
        \A i, j \in DOMAIN c : i # j => c[i] # c[j]}

QueryTexts == {<<"q">>, <<"w", "h", "y">>}
QueryEmbeddings == {None, <<>>, <<1, 0>>}
Instructions == {<<>>, <<"o", "k">>}
TokenLimits == {1, 14, 15, 16, 21, 22, 27, 28, 29, 35, 60}

InitPrompt ==
    \E q \in QueryTexts, qe \in QueryEmbeddings, c \in Corpora, ci \in Instructions,
       k \in 0..MaxTopK, m \in TokenLimits, all \in BOOLEAN :
        /\ prompt_call = [query_text |-> q, query_embedding |-> qe,
                          embeddings_data |-> c, custom_instructions |-> ci,
                          top_k |-> k, max_prompt_tokens |-> m,
                          include_entire_codebase |-> all,
                          pc |-> "call", out |-> None]
        /\ chunk_call = Idle
        /\ StoreUnused
        /\ button_call = Idle
        /\ hash_call = Idle
        /\ recent_call = Idle
        /\ OthersUnused

GenerateEnhancedPrompt ==
    /\ prompt_call.pc = "call"
    /\ prompt_call' = [prompt_call EXCEPT
           !.pc = "done",
           !.out = generate_enhanced_prompt(
                       prompt_call.query_text, prompt_call.query_embedding,
                       prompt_call.embeddings_data, prompt_call.custom_instructions,
                       prompt_call.top_k, prompt_call.max_prompt_tokens,
                       prompt_call.include_entire_codebase)]
    /\ UNCHANGED <<chunkVars, button_call, hash_call, recent_call, cosine_call, chat, storeVars>>

NextPrompt == GenerateEnhancedPrompt

SpecPrompt == InitPrompt /\ [][NextPrompt]_vars

\* max(1, int(len(text) / 4)): the estimated token count of a text
estimate_tokens(text) == Max(1, Len(text) \div 4)

PromptDone == prompt_call.pc = "done"
PromptOut == prompt_call.out
PromptRanked == PromptDone /\ ~PromptOut.error

\* The renderings of the items, in order
Renderings(items) == [k \in DOMAIN items |-> RenderChunk(items[k])]

\* s is t cut short: a prefix of t that is not all of t
IsProperPrefix(s, t) == Len(s) < Len(t) /\ s = SubSeq(t, 1, Len(s))

\* C1: the estimated token count of the returned prompt never exceeds
\* max_prompt_tokens, and an empty index gives header + footer only.
C1_PromptWithinLimit ==
    PromptDone =>
        /\ estimate_tokens(PromptOut.prompt) <= prompt_call.max_prompt_tokens
        /\ (~PromptOut.error /\ prompt_call.embeddings_data = <<>>) =>
               PromptOut.prompt = Header(prompt_call.query_text)
                                      \o Footer(prompt_call.custom_instructions)

\* C8: the ranking is a permutation of the index, in descending order of
\* similarity, and records of equal similarity keep their order in the index.
C8_RankingSortedStable ==
    PromptRanked =>
        LET data == prompt_call.embeddings_data
            r == PromptOut.results
            Pos(item) == CHOOSE k \in DOMAIN data : data[k] = item
        IN  /\ Len(r) = Len(data)
            /\ {r[k][2] : k \in DOMAIN r} = {data[k] : k \in DOMAIN data}
            /\ \A k \in DOMAIN r :
                   r[k][1] = cosine_similarity(prompt_call.query_embedding,
                                               r[k][2].embedding)
            /\ \A i, j \in DOMAIN r :
                   i < j => /\ ~SimLess(r[i][1], r[j][1])
                            /\ SimEqual(r[i][1], r[j][1]) => Pos(r[i][2]) < Pos(r[j][2])

\* A ranking of three records: the first record of the index is ranked last,
\* the two of equal similarity before it in their index order
C8_Witness ==
    /\ PromptRanked
    /\ Len(PromptOut.results) = 3
    /\ PromptOut.results[1][2] = prompt_call.embeddings_data[2]
    /\ PromptOut.results[2][2] = prompt_call.embeddings_data[3]
    /\ PromptOut.results[3][2] = prompt_call.embeddings_data[1]
    /\ SimEqual(PromptOut.results[1][1], PromptOut.results[2][1])
    /\ SimLess(PromptOut.results[3][1], PromptOut.results[2][1])

\* C9 as stated: with the whole-corpus flag off the first min(k, n) entries of
\* the ranking are selected and all of them appear in the prompt, in order.
C9_TopKAllInPrompt ==
    (PromptRanked /\ ~prompt_call.include_entire_codebase) =>
        LET r == PromptOut.results
            n == Min(prompt_call.top_k, Len(r))
            top == [k \in 1..n |-> r[k][2]]
        IN  /\ PromptOut.selected_items = top
            /\ PromptOut.prompt = Header(prompt_call.query_text)
                                      \o Concat(Renderings(top))
                                      \o Footer(prompt_call.custom_instructions)

\* C9 amended: the first min(k, n) entries of the ranking are selected; the
\* context block is the renderings, in ranking order, of a leading part of
\* them, followed at most by a cut rendering of the next one; all of them
\* appear in full when their token counts fit beside header and footer.
C9_TopKSelectedInOrder ==
    (PromptRanked /\ ~prompt_call.include_entire_codebase) =>
        LET r == PromptOut.results
            n == Min(prompt_call.top_k, Len(r))
            top == [k \in 1..n |-> r[k][2]]
            rs == Renderings(top)
            ctx == PromptOut.context_text
            header == Header(prompt_call.query_text)
            footer == Footer(prompt_call.custom_instructions)
            needed == TokensOf(header \o footer)
                          + Dot([k \in 1..n |-> TokensOf(rs[k])], [k \in 1..n |-> 1])
        IN  /\ PromptOut.selected_items = top
            /\ \A i, j \in 1..n : i < j => ~SimLess(r[i][1], r[j][1])
            /\ \A k \in (n + 1)..Len(r) : \A i \in 1..n : ~SimLess(r[i][1], r[k][1])
            /\ PromptOut.prompt = header \o ctx \o footer
            /\ \E j \in 0..n :
                   \/ ctx = Concat(SubSeq(rs, 1, j))
                   \/ /\ j < n
                      /\ \E cut \in 0..Len(rs[j + 1]) :
                             /\ cut < Len(rs[j + 1])
                             /\ ctx = Concat(SubSeq(rs, 1, j)) \o SubSeq(rs[j + 1], 1, cut)
            /\ needed <= prompt_call.max_prompt_tokens => ctx = Concat(rs)

\* top_k = 2 over three ranked records: the two most similar ones, in full
C9_Witness ==
    /\ PromptRanked
    /\ ~prompt_call.include_entire_codebase
    /\ prompt_call.top_k = 2
    /\ Len(PromptOut.results) = 3
    /\ SimLess(PromptOut.results[3][1], PromptOut.results[2][1])
    /\ PromptOut.selected_items = <<PromptOut.results[1][2], PromptOut.results[2][2]>>
    /\ PromptOut.context_text = Concat(Renderings(PromptOut.selected_items))

\* C10: with the whole corpus selected, a full prompt that overflows the
\* limit gives the top-k selection and a warning; without a warning every
\* chunk of the index is in the prompt in full.
C10_WholeCorpusOrWarning ==
    (PromptRanked /\ prompt_call.include_entire_codebase) =>
        LET r == PromptOut.results
            header == Header(prompt_call.query_text)
            footer == Footer(prompt_call.custom_instructions)
            full_prompt == header \o Concat(Renderings(ItemsOf(r))) \o footer
            overflow == estimate_tokens(full_prompt) > prompt_call.max_prompt_tokens
            n == Min(prompt_call.top_k, Len(r))
        IN  /\ overflow => /\ PromptOut.warned
                           /\ PromptOut.selected_items = [k \in 1..n |-> r[k][2]]
            /\ ~PromptOut.warned =>
                   /\ ~overflow
                   /\ PromptOut.prompt = full_prompt
                   /\ Len(PromptOut.selected_items) = Len(prompt_call.embeddings_data)

\* Both outcomes: three chunks in full without a warning
C10_Witness ==
    /\ PromptRanked
    /\ prompt_call.include_entire_codebase
    /\ ~PromptOut.warned
    /\ Len(prompt_call.embeddings_data) = 3
    /\ PromptOut.context_text = Concat(Renderings(ItemsOf(PromptOut.results)))

(***************************************************************************)
(* The working tree, list_code_files and compute_repo_hash.                *)
(* A tree is the sequence of its files in the order os.walk yields them;   *)
(* a file is [path, mtime, text], its path relative to the repository.     *)
(***************************************************************************)
FILE_EXTENSIONS ==
    << <<".", "p", "y">>,
       <<".", "j", "s">>,
       <<".", "j", "a", "v", "a">>,
       <<".", "c", "p", "p">>,
       <<".", "c">>,
       <<".", "t", "s">>,
       <<".", "g", "o">>,
       <<".", "r", "b">>,
       <<".", "p", "h", "p">> >>

SKIP_DIRS ==
    << <<"g", "e", "t", "i", "d", "3">>,
       <<"i", "s", "o", "-", "l", "a", "n", "g", "u", "a", "g", "e", "s">>,
       <<"p", "l", "u", "g", "i", "n", "-", "u", "p", "d", "a", "t", "e", "-",
         "c", "h", "e", "c", "k", "e", "r">>,
       <<"l", "a", "n", "g", "u", "a", "g", "e", "s">>,
       <<"m", "e", "d", "i", "a">>,
       <<"i", "n", "c", "l", "u", "d", "e", "s">> >>

\* The characters of the paths, in code point order
CharOrder ==
    <<"-", ".", "/", "0", "1", "2", "3", "4", "5", "6", "7", "8", "9", ":", ";",
      "M", "a", "b", "c", "d", "e", "i", "m", "n", "o", "p", "s", "t", "y">>

Ord(c) == CHOOSE k \in DOMAIN CharOrder : CharOrder[k] = c

\* c.lower()
LowerChar(c) == IF c = "M" THEN "m" ELSE c

\* s.lower()
PyLower(s) == [k \in DOMAIN s |-> LowerChar(s[k])]

\* s < t for two strings
RECURSIVE StrLess(_, _)
StrLess(s, t) ==
    IF t = <<>> THEN FALSE
    ELSE IF s = <<>> THEN TRUE
    ELSE IF Head(s) = Head(t) THEN StrLess(Tail(s), Tail(t))
    ELSE Ord(Head(s)) < Ord(Head(t))

\* f.endswith(ext)
EndsWith(f, ext) ==
    Len(ext) <= Len(f) /\ SubSeq(f, Len(f) - Len(ext) + 1, Len(f)) = ext

\* path.split("/")
RECURSIVE SplitPathFrom(_, _)
SplitPathFrom(path, part) ==
    IF path = <<>> THEN <<part>>
    ELSE IF Head(path) = "/" THEN <<part>> \o SplitPathFrom(Tail(path), <<>>)
    ELSE SplitPathFrom(Tail(path), Append(part, Head(path)))

SplitPath(path) == SplitPathFrom(path, <<>>)

\* Faulty variant: the directory names are compared as they are spelled
InScopeCaseSensitive(path, extensions) ==
    LET parts == SplitPath(path)
        dirs == SubSeq(parts, 1, Len(parts) - 1)
        f == parts[Len(parts)]
    IN  /\ \A d \in DOMAIN dirs :
               dirs[d] \notin {SKIP_DIRS[k] : k \in DOMAIN SKIP_DIRS}
        /\ \E e \in DOMAIN extensions : EndsWith(f, extensions[e])

\* os.walk descends into a directory unless its lowered name is a lowered
\* SKIP_DIRS entry, and a file counts when its name ends with an extension
InScope(path, extensions) ==
    LET parts == SplitPath(path)
        dirs == SubSeq(parts, 1, Len(parts) - 1)
        f == parts[Len(parts)]
    IN  /\ \A d \in DOMAIN dirs :
               PyLower(dirs[d]) \notin {PyLower(SKIP_DIRS[k]) : k \in DOMAIN SKIP_DIRS}
        /\ \E e \in DOMAIN extensions : EndsWith(f, extensions[e])

\* The paths of the files in scope, in traversal order
list_code_files(repo, extensions) ==
    LET IsCode(file) == InScope(file.path, extensions)
        code == SelectSeq(repo, IsCode)
    IN  [k \in DOMAIN code |-> code[k].path]

\* The file at a path, or none
HasFile(repo, path) == \E k \in DOMAIN repo : repo[k].path = path
FileAt(repo, path) == repo[CHOOSE k \in DOMAIN repo : repo[k].path = path]

\* read_file: the text, or "" when the file cannot be read
read_file(repo, path) == IF HasFile(repo, path) THEN FileAt(repo, path).text ELSE <<>>

\* files.sort()
RECURSIVE InsertPath(_, _)
InsertPath(sorted, path) ==
    IF sorted = <<>> THEN <<path>>
    ELSE IF StrLess(path, Head(sorted)) THEN <<path>> \o sorted
    ELSE <<Head(sorted)>> \o InsertPath(Tail(sorted), path)

RECURSIVE SortPathsFrom(_, _)
SortPathsFrom(sorted, rest) ==
    IF rest = <<>> THEN sorted
    ELSE SortPathsFrom(InsertPath(sorted, Head(rest)), Tail(rest))

SortPaths(files) == SortPathsFrom(<<>>, files)

\* str(mtime) of the float os.path.getmtime returns, for a whole number
PyFloatStr(n) == PyStr(n) \o <<".", "0">>

\* Faulty variant: the files are hashed in the order of the traversal
compute_repo_hash_unsorted(repo, extensions) ==
    LET files == list_code_files(repo, extensions)
        Entry(path) ==
            IF HasFile(repo, path)
            THEN path \o <<":">> \o PyFloatStr(FileAt(repo, path).mtime) \o <<":">>
                     \o PyStr(Len(FileAt(repo, path).text)) \o <<";">>
            ELSE <<>>
    IN  Concat([k \in DOMAIN files |-> Entry(files[k])])

\* hash_input; MD5 is treated as injective, the digest stands for its input
compute_repo_hash(repo, extensions) ==
    LET files == SortPaths(list_code_files(repo, extensions))
        Entry(path) ==
            IF HasFile(repo, path)
            THEN path \o <<":">> \o PyFloatStr(FileAt(repo, path).mtime) \o <<":">>
                     \o PyStr(Len(FileAt(repo, path).text)) \o <<";">>
            ELSE <<>>
    IN  Concat([k \in DOMAIN files |-> Entry(files[k])])

(***************************************************************************)
(* The recent-repository list                                              *)
(***************************************************************************)
RecentLimit == 10

\* repos.remove(repo_url): without the first occurrence
RECURSIVE PyRemove(_, _)
PyRemove(repos, repo_url) ==
    IF repos = <<>> THEN <<>>
    ELSE IF Head(repos) = repo_url THEN Tail(repos)
    ELSE <<Head(repos)>> \o PyRemove(Tail(repos), repo_url)

\* Faulty variant: an identifier that is already listed is not removed first
add_repo_to_recent_keeps_old(repos, repo_url) ==
    PySliceTo(<<repo_url>> \o repos, RecentLimit)

\* The list add_repo_to_recent saves and returns
add_repo_to_recent(repos, repo_url) ==
    LET without == IF \E k \in DOMAIN repos : repos[k] = repo_url
                   THEN PyRemove(repos, repo_url) ELSE repos
    IN  PySliceTo(<<repo_url>> \o without, RecentLimit)

(***************************************************************************)
(* The build: process_repo_with_progress inside run_processing             *)
(***************************************************************************)
\* The embedding service is opaque: some vector that depends on the text
EmbeddingOf(chunk) == <<Len(chunk), 1>>

\* What embed_chunk can return for a chunk: None on any failure, else
\* embeddings[0], which a service may leave empty
EmbedResults(chunk) == {None, <<>>, EmbeddingOf(chunk)}

\* "if embedding:"
Truthy(embedding) == embedding # None /\ embedding # <<>>

\* progress_callback(file_idx + 1, total_files) and the next round of the
\* outer loop, or the end of it
NextFile(w) ==
    [w EXCEPT !.file_idx = @ + 1, !.chunks = <<>>, !.idx = 0,
              !.pc = IF w.file_idx + 1 < Len(w.code_files) THEN "read" ELSE "publish"]

\* Faulty variant: the first failed embedding ends the whole build loop
AfterEmbedAbortOnFailure(w, embedding) ==
    LET file == w.code_files[w.file_idx + 1]
        chunk == w.chunks[w.idx + 1]
        logged == [w EXCEPT !.log = Append(@, [file |-> file, chunk_index |-> w.idx,
                                               chunk |-> chunk,
                                               ok |-> Truthy(embedding)])]
        kept == IF Truthy(embedding)
                THEN [logged EXCEPT !.results =
                         Append(@, [file |-> file, chunk_index |-> w.idx,
                                    chunk |-> chunk, embedding |-> embedding])]
                ELSE logged
    IN  IF ~Truthy(embedding)
        THEN [kept EXCEPT !.chunks = <<>>, !.idx = 0, !.pc = "publish"]
        ELSE IF w.idx + 1 < Len(w.chunks)
             THEN [kept EXCEPT !.idx = @ + 1]
             ELSE NextFile(kept)

\* Faulty variant: the record of the last chunk of a file is not appended
AfterEmbedDropsLastChunk(w, embedding) ==
    LET file == w.code_files[w.file_idx + 1]
        chunk == w.chunks[w.idx + 1]
        logged == [w EXCEPT !.log = Append(@, [file |-> file, chunk_index |-> w.idx,
                                               chunk |-> chunk,
                                               ok |-> Truthy(embedding)])]
        kept == IF Truthy(embedding) /\ w.idx + 1 < Len(w.chunks)
                THEN [logged EXCEPT !.results =
                         Append(@, [file |-> file, chunk_index |-> w.idx,
                                    chunk |-> chunk, embedding |-> embedding])]
                ELSE logged
    IN  IF w.idx + 1 < Len(w.chunks)
        THEN [kept EXCEPT !.idx = @ + 1]
        ELSE NextFile(kept)

\* One round of the inner loop once embed_chunk has returned: the record is
\* appended or the chunk is skipped, and the loop goes on.  log keeps every
\* call made and how it ended.
AfterEmbed(w, embedding) ==
    LET file == w.code_files[w.file_idx + 1]
        chunk == w.chunks[w.idx + 1]
        logged == [w EXCEPT !.log = Append(@, [file |-> file, chunk_index |-> w.idx,
                                               chunk |-> chunk,
                                               ok |-> Truthy(embedding)])]
        kept == IF Truthy(embedding)
                THEN [logged EXCEPT !.results =
                         Append(@, [file |-> file, chunk_index |-> w.idx,
                                    chunk |-> chunk, embedding |-> embedding])]
                ELSE logged
    IN  IF w.idx + 1 < Len(w.chunks)
        THEN [kept EXCEPT !.idx = @ + 1]
        ELSE NextFile(kept)

\* One round of the outer loop up to the inner loop: the file is read and
\* chunked; an empty or unreadable file is skipped.  texts keeps what was read.
AfterRead(w, content) ==
    LET read == [w EXCEPT !.texts = Append(@, content)]
    IN  IF content = <<>>
        THEN NextFile(read)
        ELSE [read EXCEPT !.chunks = chunk_file_text(content, w.max_chars),
                          !.idx = 0, !.pc = "embed"]

\* Faulty variant: the loop appends to the in-memory index itself
IndexDuringBuildShared(index, w) == w.results

\* "results = []": the build loop fills a list of its own, the in-memory
\* index is what it was
IndexDuringBuild(index, w) == index

\* A thread that has just been started; started_at is the value of touches
\* when its load began
NewWorker(current_hash, max_chars, started_at) ==
    [pc |-> "list", current_hash |-> current_hash, max_chars |-> max_chars,
     started_at |-> started_at, code_files |-> <<>>, file_idx |-> 0, texts |-> <<>>, chunks |-> <<>>, idx |-> 0,
     results |-> <<>>, log |-> <<>>]

(***************************************************************************)
(* The persisted index file                                                *)
(***************************************************************************)
Absent == [state |-> "absent"]
\* open(embed_file, "w") has emptied the file, json.dump has not written yet
Truncated == [state |-> "truncated"]
\* json.dump failed midway
Partial == [state |-> "partial"]
\* The complete JSON object
Complete(repo_hash, embeddings) ==
    [state |-> "complete", repo_hash |-> repo_hash, embeddings |-> embeddings]

\* Faulty variant: the stored hash is not looked at, every load rebuilds
CacheDecisionAlwaysBuild(file, current_hash) == "build"

\* Faulty variant: an out-of-date file is rebuilt without asking
CacheDecisionRebuildsStale(file, current_hash) ==
    IF file.state = "absent" THEN "build"
    ELSE IF file.state # "complete" THEN "build"
    ELSE IF file.repo_hash = current_hash THEN "fresh"
    ELSE "build"

\* open or json.load raises an I/O error
Unreadable == [state |-> "unreadable"]
\* Valid JSON that is not an object: data.get raises AttributeError
NotAnObject == [state |-> "not_object"]

\* Faulty variant: a file that cannot be parsed is treated like an
\* out-of-date one
CacheDecisionAsksOnUnparsable(file, current_hash) ==
    IF file.state = "absent" THEN "build"
    ELSE IF file.state = "complete" /\ file.repo_hash = current_hash THEN "fresh"
    ELSE "stale"

\* Faulty variant: a missing file is treated like an out-of-date one
CacheDecisionAsksWithoutFile(file, current_hash) ==
    IF file.state # "complete" THEN "stale"
    ELSE IF file.repo_hash = current_hash THEN "fresh"
    ELSE "stale"

\* The branch start_embedding_thread takes on the embed file: no file, or a
\* file json.load cannot parse (the except branch), leads to the build
CacheDecision(file, current_hash) ==
    IF file.state = "absent" THEN "build"
    ELSE IF file.state # "complete" THEN "build"
    ELSE IF file.repo_hash = current_hash THEN "fresh"
    ELSE "stale"

(***************************************************************************)
(* Specification Spec: the index store.  One repository; the user starts   *)
(* up to MaxLoads loads, each of which may start a run_processing thread,  *)
(* and the tree is modified up to MaxTouches times meanwhile.  Any number  *)
(* of threads may be started one after another; at most the threads of     *)
(* Threads are alive at the same time.                                     *)
(***************************************************************************)
MaxLoads == 2
MaxTouches == 1

Threads == {1, 2}

RepoUrl == "https://example.org/repo.git"

\* What the user may have typed into the "Max Chunk Size (tokens)" entry
MaxTokensEntries == {<<"x">>, <<"1">>}

\* int(s) succeeds
IsInt(s) == s # <<>> /\ \A k \in DOMAIN s : \E d \in DOMAIN Digits : Digits[d] = s[k]

\* int(s)
RECURSIVE PyInt(_)
PyInt(s) ==
    IF s = <<>> THEN 0
    ELSE 10 * PyInt(SubSeq(s, 1, Len(s) - 1))
             + (CHOOSE d \in 0..9 : Digits[d + 1] = s[Len(s)])

InitialTree ==
    << [path |-> PathA, mtime |-> 1, text |-> <<"a", "b", "c", "d", "e">>],
       [path |-> <<"M", "e", "d", "i", "a", "/", "c", ".", "p", "y">>, mtime |-> 1,
        text |-> <<"z", "z">>],
       [path |-> PathB, mtime |-> 1, text |-> <<"x", "y">>] >>

\* The text a file has once it has been modified
TouchedText(path) ==
    IF path = PathA THEN <<"a", "b", "c">>
    ELSE IF path = PathB THEN <<>>
    ELSE <<"z", "z">>

Init ==
    /\ tree = InitialTree
    /\ embed_file = Absent
    /\ global_embeddings_data = <<>>
    /\ workers = [w \in Threads |-> Idle]
    /\ ui = [pc |-> "idle", outcome |-> "none"]
    /\ recent = <<>>
    /\ cloned = FALSE
    /\ loads = 0
    /\ touches = 0
    /\ file_built_at = 0
    /\ cancel_requested = {}
    /\ chunk_call = Idle
    /\ prompt_call = Idle
    /\ button_call = Idle
    /\ hash_call = Idle
    /\ recent_call = Idle
    /\ OthersUnused

Returned(outcome) == [pc |-> "idle", outcome |-> outcome]

\* start_embedding_thread with an empty repository entry: an error box
StartWithoutUrl ==
    /\ ui.pc = "idle"
    /\ UNCHANGED vars

\* start_embedding_thread when the repository cannot be cloned: the recent
\* list is saved before, then an error box
StartCloneFails ==
    /\ ui.pc = "idle"
    /\ ~cloned
    /\ recent' = add_repo_to_recent(recent, RepoUrl)
    /\ UNCHANGED <<tree, embed_file, global_embeddings_data, workers, ui, cloned,
                   loads, touches, file_built_at, cancel_requested, callVars>>

\* The part of start_embedding_thread every load shares: the recent list
\* is saved, the repository cloned or pulled
Load ==
    /\ ui.pc = "idle"
    /\ loads < MaxLoads
    /\ recent' = add_repo_to_recent(recent, RepoUrl)
    /\ cloned' = TRUE
    /\ loads' = loads + 1

\* A thread that is not alive
Free(w) == workers[w].pc \in {"idle", "ended"}

\* "Proceed with embedding": the chunk size is read and the thread started.
\* A request to cancel concerned the thread that was alive, not the new one.
Proceed(current_hash, max_tokens, started_at) ==
    IF IsInt(max_tokens)
    THEN /\ \E w \in Threads : Free(w)
         /\ LET w == CHOOSE t \in Threads :
                          Free(t) /\ \A u \in Threads : Free(u) => t <= u
            IN  /\ workers' = [workers EXCEPT ![w] =
                       NewWorker(current_hash, PyInt(max_tokens) * 4, started_at)]
                /\ cancel_requested' = cancel_requested \ {w}
         /\ ui' = Returned("build_started")
    ELSE /\ workers' = workers
         /\ cancel_requested' = cancel_requested
         /\ ui' = Returned("bad_max_tokens")

\* start_embedding_thread: the stored hash is the current one
StartFresh ==
    /\ Load
    /\ CacheDecision(embed_file, compute_repo_hash(tree, FILE_EXTENSIONS)) = "fresh"
    /\ global_embeddings_data' = embed_file.embeddings
    /\ ui' = Returned("fresh")
    /\ UNCHANGED <<tree, embed_file, workers, touches, file_built_at,
                   cancel_requested, callVars>>

\* start_embedding_thread: the stored hash differs, askyesno opens; data is
\* what json.load returned
StartStale ==
    /\ Load
    /\ LET current_hash == compute_repo_hash(tree, FILE_EXTENSIONS)
       IN  /\ CacheDecision(embed_file, current_hash) = "stale"
           /\ ui' = [pc |-> "asking", outcome |-> "asking", data |-> embed_file,
                     current_hash |-> current_hash, asked_at |-> touches]
    /\ UNCHANGED <<tree, embed_file, global_embeddings_data, workers, touches,
                   file_built_at, cancel_requested, callVars>>

\* start_embedding_thread: no embed file, or one that cannot be parsed
StartBuild ==
    \E max_tokens \in MaxTokensEntries :
        /\ Load
        /\ LET current_hash == compute_repo_hash(tree, FILE_EXTENSIONS)
           IN  /\ CacheDecision(embed_file, current_hash) = "build"
               /\ Proceed(current_hash, max_tokens, touches)
        /\ UNCHANGED <<tree, embed_file, global_embeddings_data, touches,
                       file_built_at, callVars>>

\* askyesno answered no: the data read before the dialog is used
AnswerUseStale ==
    /\ ui.pc = "asking"
    /\ global_embeddings_data' = ui.data.embeddings
    /\ ui' = Returned("stale_used")
    /\ UNCHANGED <<tree, embed_file, workers, recent, cloned, loads, touches,
                   file_built_at, cancel_requested, callVars>>

\* askyesno answered yes: on to the build, with the hash taken before
AnswerRefresh ==
    \E max_tokens \in MaxTokensEntries :
        /\ ui.pc = "asking"
        /\ Proceed(ui.current_hash, max_tokens, ui.asked_at)
        /\ UNCHANGED <<tree, embed_file, global_embeddings_data, recent, cloned,
                       loads, touches, file_built_at, callVars>>

\* process_repo_with_progress: list_code_files
WorkerList(w) ==
    /\ workers[w].pc = "list"
    /\ LET code_files == list_code_files(tree, FILE_EXTENSIONS)
       IN  workers' = [workers EXCEPT
               ![w].code_files = code_files,
               ![w].pc = IF code_files = <<>> THEN "publish" ELSE "read"]
    /\ UNCHANGED <<tree, embed_file, global_embeddings_data, ui, recent, cloned,
                   loads, touches, file_built_at, cancel_requested, callVars>>

\* process_repo_with_progress: read_file and chunk_file_text for one file, up
\* to the first embed_chunk call for it.  A thread with pc = "embed" is inside
\* embed_chunk, waiting for the service to answer for chunks[idx].
WorkerRead(w) ==
    /\ workers[w].pc = "read"
    /\ workers' = [workers EXCEPT ![w] =
           AfterRead(workers[w],
                     read_file(tree, workers[w].code_files[workers[w].file_idx + 1]))]
    /\ UNCHANGED <<tree, embed_file, global_embeddings_data, ui, recent, cloned,
                   loads, touches, file_built_at, cancel_requested, callVars>>

\* process_repo_with_progress: embed_chunk returns for one chunk, and what
\* follows it up to the next call or the next file
WorkerEmbed(w) ==
    /\ workers[w].pc = "embed"
    /\ \E embedding \in EmbedResults(workers[w].chunks[workers[w].idx + 1]) :
           workers' = [workers EXCEPT ![w] = AfterEmbed(workers[w], embedding)]
    /\ global_embeddings_data' = IndexDuringBuild(global_embeddings_data, workers'[w])
    /\ UNCHANGED <<tree, embed_file, ui, recent, cloned,
                   loads, touches, file_built_at, cancel_requested, callVars>>

\* run_processing: global_embeddings_data = process_repo_with_progress(...)
WorkerPublish(w) ==
    /\ workers[w].pc = "publish"
    /\ global_embeddings_data' = workers[w].results
    /\ workers' = [workers EXCEPT ![w] =
           [pc |-> "open", current_hash |-> workers[w].current_hash,
            started_at |-> workers[w].started_at]]
    /\ UNCHANGED <<tree, embed_file, ui, recent, cloned, loads, touches,
                   file_built_at, cancel_requested, callVars>>

\* run_processing: open(embed_file, "w") empties the file, or raises
WorkerOpen(w) ==
    /\ workers[w].pc = "open"
    /\ \/ /\ embed_file' = Truncated
          /\ workers' = [workers EXCEPT ![w].pc = "dump"]
       \/ /\ embed_file' = embed_file
          /\ workers' = [workers EXCEPT ![w] = [pc |-> "ended"]]
    /\ UNCHANGED <<tree, global_embeddings_data, ui, recent, cloned, loads, touches,
                   file_built_at, cancel_requested, callVars>>

\* run_processing: json.dump of the hash taken at the start and of the
\* in-memory index as it is now, or a failure midway
WorkerDump(w) ==
    /\ workers[w].pc = "dump"
    /\ \/ /\ embed_file' = Complete(workers[w].current_hash, global_embeddings_data)
          /\ file_built_at' = workers[w].started_at
       \/ /\ embed_file' = Partial
          /\ file_built_at' = file_built_at
    /\ workers' = [workers EXCEPT ![w] = [pc |-> "ended"]]
    /\ UNCHANGED <<tree, global_embeddings_data, ui, recent, cloned, loads, touches,
                   cancel_requested, callVars>>

\* Somebody modifies a file of the tree: a new mtime, and its text
TouchFile(k) ==
    /\ touches < MaxTouches
    /\ touches' = touches + 1
    /\ tree' = [tree EXCEPT ![k].mtime = @ + 1, ![k].text = TouchedText(tree[k].path)]
    /\ UNCHANGED <<embed_file, global_embeddings_data, workers, ui, recent, cloned,
                   loads, file_built_at, cancel_requested, callVars>>

Next ==
    \/ StartWithoutUrl
    \/ StartCloneFails
    \/ StartFresh
    \/ StartStale
    \/ StartBuild
    \/ AnswerUseStale
    \/ AnswerRefresh
    \/ \E w \in Threads :
           \/ WorkerList(w)
           \/ WorkerRead(w)
           \/ WorkerEmbed(w)
           \/ WorkerPublish(w)
           \/ WorkerOpen(w)
           \/ WorkerDump(w)
    \/ \E k \in DOMAIN InitialTree : TouchFile(k)

Spec == Init /\ [][Next]_vars

(***************************************************************************)
(* Specification SpecCancel: the index store with a user who asks for the  *)
(* running builds to be cancelled.  The program has no operation that      *)
(* takes the request: it is recorded and nothing in the program reads it.  *)
(***************************************************************************)
InBuildLoop(w) == workers[w].pc \in {"list", "read", "embed"}

RequestCancel ==
    /\ cancel_requested = {}
    /\ \E w \in Threads : InBuildLoop(w)
    /\ cancel_requested' = {w \in Threads : InBuildLoop(w)}
    /\ UNCHANGED <<tree, embed_file, global_embeddings_data, workers, ui, recent,
                   cloned, loads, touches, file_built_at, callVars>>

NextCancel == Next \/ RequestCancel

SpecCancel == Init /\ [][NextCancel]_vars

(***************************************************************************)
(* embed_chunk on what the embedding service answers, and                  *)
(* generate_prompt_button                                                  *)
(***************************************************************************)
\* What requests.post can come back with: an exception (no connection, time
\* out), or a response with its status code and body; a body that is not
\* JSON, or JSON with or without the "embeddings" key (has_key)
EmbedResponses ==
    { [kind |-> "exception", status_code |-> 0, json |-> FALSE, has_key |-> FALSE,
       embeddings |-> <<>>],
      [kind |-> "response", status_code |-> 500, json |-> TRUE, has_key |-> TRUE,
       embeddings |-> <<<<1, 0>>>>],
      [kind |-> "response", status_code |-> 200, json |-> FALSE, has_key |-> FALSE,
       embeddings |-> <<>>],
      [kind |-> "response", status_code |-> 200, json |-> TRUE, has_key |-> FALSE,
       embeddings |-> <<>>],
      [kind |-> "response", status_code |-> 200, json |-> TRUE, has_key |-> TRUE,
       embeddings |-> <<>>],
      [kind |-> "response", status_code |-> 200, json |-> TRUE, has_key |-> TRUE,
       embeddings |-> <<<<1, 0>>>>],
      [kind |-> "response", status_code |-> 200, json |-> TRUE, has_key |-> TRUE,
       embeddings |-> <<<<0, 1>>, <<1, 0>>>>] }

embed_chunk(response) ==
    IF response.kind = "exception" THEN None
    ELSE IF response.status_code # 200 THEN None
    ELSE IF ~response.json THEN None
    ELSE IF ~response.has_key THEN None
    ELSE IF response.embeddings = <<>> THEN None
    ELSE response.embeddings[1]

\* str.strip()
Whitespace == {" ", "\n", "\t"}

RECURSIVE PyLStrip(_)
PyLStrip(s) ==
    IF s # <<>> /\ s[1] \in Whitespace THEN PyLStrip(Tail(s)) ELSE s

RECURSIVE PyRStrip(_)
PyRStrip(s) ==
    IF s # <<>> /\ s[Len(s)] \in Whitespace
    THEN PyRStrip(SubSeq(s, 1, Len(s) - 1)) ELSE s

PyStrip(s) == PyRStrip(PyLStrip(s))

\* top_k=3 in the call of generate_enhanced_prompt
ButtonTopK == 3

\* What a call of generate_prompt_button leaves behind: the message boxes
\* shown, the texts it put into the prompt widget and into
\* enhanced_prompt.txt (none: untouched), and how many similarities were
\* computed
ButtonOut(boxes, shown, saved, sims) ==
    [boxes |-> boxes, shown |-> shown, saved |-> saved, sims |-> sims]

\* Faulty variant: the result of generate_enhanced_prompt is shown and saved
\* without looking at it
generate_prompt_button_unchecked(query_entry, embeddings_data, instructions_entry, max_entry, include_entire, response, save_ok) ==
    LET query == PyStrip(query_entry)
        custom_instructions == PyStrip(instructions_entry)
    IN  IF query = <<>>
        THEN ButtonOut(<<"Please enter a query prompt.">>, <<>>, <<>>, 0)
        ELSE IF embeddings_data = <<>>
        THEN ButtonOut(<<"No embeddings data available.">>, <<>>, <<>>, 0)
        ELSE IF ~IsInt(max_entry)
        THEN ButtonOut(<<"Invalid max prompt token value">>, <<>>, <<>>, 0)
        ELSE LET out == generate_enhanced_prompt(
                            query, embed_chunk(response), embeddings_data,
                            custom_instructions, ButtonTopK, PyInt(max_entry),
                            include_entire)
                 boxes == (IF out.error THEN <<"Failed to embed the query.">>
                           ELSE <<>>)
                          \o (IF out.warned THEN <<"Token Limit Exceeded">> ELSE <<>>)
             IN  ButtonOut(boxes \o <<"Enhanced prompt generated!">>, <<out.prompt>>,
                           IF save_ok THEN <<out.prompt>> ELSE <<>>,
                           Len(out.results))

generate_prompt_button(query_entry, embeddings_data, instructions_entry, max_entry, include_entire, response, save_ok) ==
    LET query == PyStrip(query_entry)
        custom_instructions == PyStrip(instructions_entry)
    IN  IF query = <<>>
        THEN ButtonOut(<<"Please enter a query prompt.">>, <<>>, <<>>, 0)
        ELSE IF embeddings_data = <<>>
        THEN ButtonOut(<<"No embeddings data available.">>, <<>>, <<>>, 0)
        ELSE IF ~IsInt(max_entry)
        THEN ButtonOut(<<"Invalid max prompt token value">>, <<>>, <<>>, 0)
        ELSE LET out == generate_enhanced_prompt(
                            query, embed_chunk(response), embeddings_data,
                            custom_instructions, ButtonTopK, PyInt(max_entry),
                            include_entire)
                 boxes == (IF out.error THEN <<"Failed to embed the query.">>
                           ELSE <<>>)
                          \o (IF out.warned THEN <<"Token Limit Exceeded">> ELSE <<>>)
             IN  IF out.prompt # <<>>
                 THEN ButtonOut(boxes \o <<"Enhanced prompt generated!">>,
                                <<out.prompt>>,
                                IF save_ok THEN <<out.prompt>> ELSE <<>>,
                                Len(out.results))
                 ELSE ButtonOut(boxes, <<>>, <<>>, Len(out.results))

(***************************************************************************)
(* Specification SpecCorrupt: the index store with an embed file that      *)
(* somebody else makes unreadable, or replaces by JSON that is not an      *)
(* object, once the program has written it.                                *)
(***************************************************************************)
CorruptFile ==
    /\ embed_file.state = "complete"
    /\ embed_file' \in {Unreadable, NotAnObject}
    /\ UNCHANGED <<tree, global_embeddings_data, workers, ui, recent, cloned, loads,
                   touches, file_built_at, cancel_requested, callVars>>

NextCorrupt == Next \/ CorruptFile

SpecCorrupt == Init /\ [][NextCorrupt]_vars

(***************************************************************************)
(* Specification SpecRetrieve: the index store with a user who presses     *)
(* "Generate Enhanced Prompt" with a query typed in, at any time.  The     *)
(* handler reads the in-memory index twice, for the emptiness check and    *)
(* for the call of generate_enhanced_prompt; a run_processing thread may   *)
(* take steps in between.                                                  *)
(***************************************************************************)
\* generate_prompt_button: "if not global_embeddings_data" is passed, or the
\* error box is shown and the handler returns
RetrieveCheck ==
    /\ button_call.pc \in {"idle", "ranked"}
    /\ button_call' = IF global_embeddings_data = <<>> THEN Idle
                      ELSE [pc |-> "checked"]
    /\ UNCHANGED <<chunk_call, prompt_call, hash_call, recent_call, cosine_call, chat,
                   storeVars>>

\* generate_prompt_button: the index handed to generate_enhanced_prompt
RetrieveRank ==
    /\ button_call.pc = "checked"
    /\ button_call' = [pc |-> "ranked", index |-> global_embeddings_data]
    /\ UNCHANGED <<chunk_call, prompt_call, hash_call, recent_call, cosine_call, chat,
                   storeVars>>

NextRetrieve == Next \/ RetrieveCheck \/ RetrieveRank

SpecRetrieve == Init /\ [][NextRetrieve]_vars

(***************************************************************************)
(* Specification SpecButton: generate_prompt_button pressed once, for      *)
(* every answer of the embedding service, with and without an index and    *)
(* with valid and invalid entries.                                         *)
(***************************************************************************)
QueryEntries == {<<"\n">>, <<" ", "\n">>, <<"q", "\n">>, <<" ", "w", "h", "y", "\n">>}
InstructionEntries == {<<"\n">>, <<"o", "k", "\n">>}
MaxPromptEntries == {<<"x">>, <<"1">>, <<"6", "0">>}
ButtonCorpora == {c \in Corpora : Len(c) <= 1}

InitButton ==
    \E q \in QueryEntries, c \in ButtonCorpora, ci \in InstructionEntries,
       m \in MaxPromptEntries, all \in BOOLEAN, r \in EmbedResponses,
       ok \in BOOLEAN :
        /\ button_call = [query_entry |-> q, embeddings_data |-> c,
                          instructions_entry |-> ci, max_entry |-> m,
                          include_entire |-> all, response |-> r, save_ok |-> ok,
                          pc |-> "call", out |-> ButtonOut(<<>>, <<>>, <<>>, 0)]
        /\ chunk_call = Idle
        /\ prompt_call = Idle
        /\ hash_call = Idle
        /\ recent_call = Idle
        /\ OthersUnused
        /\ StoreUnused

GeneratePromptButton ==
    /\ button_call.pc = "call"
    /\ button_call' = [button_call EXCEPT
           !.pc = "done",
           !.out = generate_prompt_button(
                       button_call.query_entry, button_call.embeddings_data,
                       button_call.instructions_entry, button_call.max_entry,
                       button_call.include_entire, button_call.response,
                       button_call.save_ok)]
    /\ UNCHANGED <<chunk_call, prompt_call, hash_call, recent_call, cosine_call, chat, storeVars>>

NextButton == GeneratePromptButton

SpecButton == InitButton /\ [][NextButton]_vars

(***************************************************************************)
(* Specification SpecHash: compute_repo_hash before and after one change   *)
(* of a working tree of up to MaxTreeFiles files: another traversal order, *)
(* a file modified, added or removed.                                      *)
(***************************************************************************)
MaxTreeFiles == 3

PathSub == <<"d", "/", "a", ".", "p", "y">>
PathIgnored == <<"M", "e", "d", "i", "a", "/", "c", ".", "p", "y">>
PathOther == <<"n", ".", "m", "d">>

PathPool == {PathA, PathB, PathSub, PathIgnored, PathOther}
Mtimes == {1, 2}
FileTexts == {<<"x">>, <<"y">>, <<"x", "y">>}

NewFile(path) == [path |-> path, mtime |-> 1, text |-> <<"x">>]

\* The working trees: distinct paths, in any traversal order
HashTrees ==
    {[k \in DOMAIN ps |-> NewFile(ps[k])] :
        ps \in {q \in SeqsUpTo(PathPool, MaxTreeFiles) :
                   \A i, j \in DOMAIN q : i # j => q[i] # q[j]}}

\* The orders in which a traversal may yield the same files
Reorderings(repo) ==
    {[k \in DOMAIN repo |-> repo[f[k]]] :
        f \in {g \in [DOMAIN repo -> DOMAIN repo] :
                  \A i, j \in DOMAIN repo : i # j => g[i] # g[j]}}

\* t with x inserted before position k
InsertAt(t, k, x) == SubSeq(t, 1, k - 1) \o <<x>> \o SubSeq(t, k, Len(t))

\* t without the element at position k
RemoveAt(t, k) == SubSeq(t, 1, k - 1) \o SubSeq(t, k + 1, Len(t))

\* Two calls of compute_repo_hash, before and after the change
HashedTwice(op, path, before, after) ==
    [pc |-> "done", op |-> op, path |-> path, repo_before |-> before,
     hash_before |-> compute_repo_hash(before, FILE_EXTENSIONS),
     hash_after |-> compute_repo_hash(after, FILE_EXTENSIONS)]

InitHash ==
    /\ tree \in HashTrees
    /\ hash_call = [pc |-> "call"]
    /\ embed_file = Idle
    /\ global_embeddings_data = <<>>
    /\ workers = <<>>
    /\ ui = Idle
    /\ recent = <<>>
    /\ cloned = FALSE
    /\ loads = 0
    /\ touches = 0
    /\ file_built_at = 0
    /\ cancel_requested = {}
    /\ chunk_call = Idle
    /\ prompt_call = Idle
    /\ button_call = Idle
    /\ recent_call = Idle
    /\ OthersUnused

HashUnchanged ==
    UNCHANGED <<embed_file, global_embeddings_data, workers, ui, recent, cloned, loads,
                touches, file_built_at, cancel_requested, chunk_call, prompt_call,
                button_call, recent_call, cosine_call, chat>>

\* The same directory state, hashed again; os.walk may yield another order
HashAgain ==
    /\ hash_call.pc = "call"
    /\ \E repo \in Reorderings(tree) :
           /\ tree' = repo
           /\ hash_call' = HashedTwice("again", <<>>, tree, repo)
    /\ HashUnchanged

\* A file is written to: its mtime, its text or both become other ones
HashModify ==
    /\ hash_call.pc = "call"
    /\ \E k \in DOMAIN tree, m \in Mtimes, t \in FileTexts :
           /\ m # tree[k].mtime \/ t # tree[k].text
           /\ tree' = [tree EXCEPT ![k].mtime = m, ![k].text = t]
           /\ hash_call' = HashedTwice("modify", tree[k].path, tree, tree')
    /\ HashUnchanged

\* A file appears, anywhere in the traversal order
HashAdd ==
    /\ hash_call.pc = "call"
    /\ Len(tree) < MaxTreeFiles
    /\ \E path \in PathPool, k \in 1..(Len(tree) + 1) :
           /\ ~HasFile(tree, path)
           /\ tree' = InsertAt(tree, k, NewFile(path))
           /\ hash_call' = HashedTwice("add", path, tree, tree')
    /\ HashUnchanged

\* A file is deleted
HashRemove ==
    /\ hash_call.pc = "call"
    /\ \E k \in DOMAIN tree :
           /\ tree' = RemoveAt(tree, k)
           /\ hash_call' = HashedTwice("remove", tree[k].path, tree, tree')
    /\ HashUnchanged

NextHash == HashAgain \/ HashModify \/ HashAdd \/ HashRemove

SpecHash == InitHash /\ [][NextHash]_vars

(***************************************************************************)
(* Specification SpecRecent: add_repo_to_recent called again and again,    *)
(* starting without recent_repos.json.  Repositories are numbered in the   *)
(* order of their first use; one more than the list can hold are used, and *)
(* up to MaxRepeats calls name a repository used before.                   *)
(***************************************************************************)
MaxRepeats == 2

Repos == 1..(RecentLimit + 1)

InitRecent ==
    /\ recent = <<>>
    /\ recent_call = [calls |-> 0, seen |-> 0, repeats |-> 0,
                      last_used |-> [r \in Repos |-> 0]]
    /\ tree = <<>>
    /\ embed_file = Idle
    /\ global_embeddings_data = <<>>
    /\ workers = <<>>
    /\ ui = Idle
    /\ cloned = FALSE
    /\ loads = 0
    /\ touches = 0
    /\ file_built_at = 0
    /\ cancel_requested = {}
    /\ chunk_call = Idle
    /\ prompt_call = Idle
    /\ button_call = Idle
    /\ hash_call = Idle
    /\ OthersUnused

\* add_repo_to_recent(repo_url); last_used keeps the number of the last call
\* that named each repository
AddRepo(repo_url, again) ==
    /\ recent' = add_repo_to_recent(recent, repo_url)
    /\ recent_call' = [calls |-> recent_call.calls + 1,
                       seen |-> IF again THEN recent_call.seen ELSE repo_url,
                       repeats |-> recent_call.repeats + (IF again THEN 1 ELSE 0),
                       last_used |-> [recent_call.last_used EXCEPT
                                         ![repo_url] = recent_call.calls + 1]]
    /\ UNCHANGED <<tree, embed_file, global_embeddings_data, workers, ui, cloned,
                   loads, touches, file_built_at, cancel_requested, chunk_call,
                   prompt_call, button_call, hash_call, cosine_call, chat>>

\* A repository that has not been used before
AddNewRepo ==
    /\ recent_call.seen + 1 \in Repos
    /\ AddRepo(recent_call.seen + 1, FALSE)

\* A repository used before, still listed or not
AddKnownRepo ==
    /\ recent_call.repeats < MaxRepeats
    /\ \E repo_url \in 1..recent_call.seen : AddRepo(repo_url, TRUE)

NextRecent == AddNewRepo \/ AddKnownRepo

SpecRecent == InitRecent /\ [][NextRecent]_vars

(***************************************************************************)
(* Specification SpecCosine: cosine_similarity applied to every pair of    *)
(* vectors of up to MaxDim coordinates between -MaxCoord and MaxCoord.     *)
(***************************************************************************)
MaxDim == 2
MaxCoord == 1

Vectors == SeqsUpTo((0 - MaxCoord)..MaxCoord, MaxDim)

InitCosine ==
    \E v1 \in Vectors, v2 \in Vectors :
        /\ cosine_call = [vec1 |-> v1, vec2 |-> v2, pc |-> "call",
                          out |-> [num |-> 0, den2 |-> 1, raised |-> FALSE]]
        /\ chat = Idle
        /\ chunk_call = Idle
        /\ prompt_call = Idle
        /\ button_call = Idle
        /\ hash_call = Idle
        /\ recent_call = Idle
        /\ StoreUnused

CosineSimilarity ==
    /\ cosine_call.pc = "call"
    /\ cosine_call' = [cosine_call EXCEPT
           !.pc = "done",
           !.out = cosine_similarity(cosine_call.vec1, cosine_call.vec2)]
    /\ UNCHANGED <<chunk_call, prompt_call, button_call, hash_call, recent_call, chat,
                   storeVars>>

NextCosine == CosineSimilarity

SpecCosine == InitCosine /\ [][NextCosine]_vars

(***************************************************************************)
(* The chat client: send_message, the thread it starts and the reply.      *)
(***************************************************************************)
DEFAULT_CTX == 8192
expected_output == 4096

\* MODELS_CONFIG: "context_limit" is optional (<<>>: the key is absent)
MODELS_CONFIG ==
    [default |-> [context_limit |-> <<>>],
     tiny |-> [context_limit |-> <<3000>>],
     exact |-> [context_limit |-> <<4096>>],
     small |-> [context_limit |-> <<4100>>],
     large |-> [context_limit |-> <<8200>>]]

ChatModels == DOMAIN MODELS_CONFIG

\* config.get("context_limit", DEFAULT_CTX)
ContextLimitOf(config) ==
    IF config.context_limit = <<>> THEN DEFAULT_CTX ELSE config.context_limit[1]

\* What a call of send_message does with the text of the input box
SendResult(outcome, user_len, dynamic_context) ==
    [outcome |-> outcome, user_len |-> user_len, dynamic_context |-> dynamic_context]

\* Faulty variant: the context is not capped at the configured limit
send_message_uncapped(input_text, config) ==
    LET user_text == PyStrip(input_text)
        token_count == estimate_tokens(user_text)
        config_context_limit == ContextLimitOf(config)
        allowed_prompt_tokens == config_context_limit - expected_output
        dynamic_context == IF token_count <= expected_output THEN 2 * expected_output
                           ELSE 2 * token_count
    IN  IF user_text = <<>> THEN SendResult("empty", 0, 0)
        ELSE IF token_count > allowed_prompt_tokens
             THEN SendResult("rejected", Len(user_text), 0)
        ELSE SendResult("sent", Len(user_text), dynamic_context)

\* send_message up to the thread start: nothing for an empty text, the error
\* line for a prompt over the limit, else the context of the request
send_message(input_text, config) ==
    LET user_text == PyStrip(input_text)
        token_count == estimate_tokens(user_text)
        config_context_limit == ContextLimitOf(config)
        allowed_prompt_tokens == config_context_limit - expected_output
        dynamic_context == IF token_count <= expected_output THEN 2 * expected_output
                           ELSE 2 * token_count
    IN  IF user_text = <<>> THEN SendResult("empty", 0, 0)
        ELSE IF token_count > allowed_prompt_tokens
             THEN SendResult("rejected", Len(user_text), 0)
        ELSE SendResult("sent", Len(user_text), Min(dynamic_context, config_context_limit))

(***************************************************************************)
(* Specification SpecChat: the user sends up to MaxSends texts, changing   *)
(* the selected model at will; each accepted text starts a send_request    *)
(* thread, whose reply comes back to the main thread.  A thread keeps the  *)
(* length of its user_text, and limit_read, the limit send_message had     *)
(* read when it started the thread.                                        *)
(***************************************************************************)
MaxSends == 2

ChatThreads == {1, 2}

\* The lengths of the prompts typed, around the limits of the models
PromptLens == {3, 16, 19, 20, 16384, 16388, 16416, 16420}

Letters(n) == [k \in 1..n |-> "a"]

\* input_box.get("1.0", tk.END): what was typed and the newline Tk adds
InputTexts ==
    {<<"\n">>, <<" ", "\n">>, <<" ">> \o Letters(16) \o <<" ", "\n">>}
        \cup {Letters(n) \o <<"\n">> : n \in PromptLens}

InitChat ==
    /\ \E m \in ChatModels :
           chat = [pc |-> "chat", selected |-> m, waiting |-> FALSE, sends |-> 0,
                   outcome |-> "none", threads |-> [t \in ChatThreads |-> Idle]]
    /\ cosine_call = Idle
    /\ chunk_call = Idle
    /\ prompt_call = Idle
    /\ button_call = Idle
    /\ hash_call = Idle
    /\ recent_call = Idle
    /\ StoreUnused

ChatUnchanged ==
    UNCHANGED <<chunk_call, prompt_call, button_call, hash_call, recent_call,
                cosine_call, storeVars>>

\* The user picks another model in the menu
ChangeModel ==
    /\ \E m \in ChatModels \ {chat.selected} : chat' = [chat EXCEPT !.selected = m]
    /\ ChatUnchanged

\* send_message
SendMessage ==
    /\ chat.sends < MaxSends
    /\ \E t \in ChatThreads : chat.threads[t].pc = "idle"
    /\ \E input_text \in InputTexts :
           LET r == send_message(input_text, MODELS_CONFIG[chat.selected])
               t == CHOOSE u \in ChatThreads :
                        /\ chat.threads[u].pc = "idle"
                        /\ \A v \in ChatThreads : chat.threads[v].pc = "idle" => u <= v
           IN  chat' = IF r.outcome = "sent"
                       THEN [chat EXCEPT
                                !.sends = @ + 1,
                                !.outcome = r.outcome,
                                !.waiting = TRUE,
                                !.threads[t] =
                                    [pc |-> "started", user_len |-> r.user_len,
                                     dynamic_context |-> r.dynamic_context,
                                     limit_read |->
                                         ContextLimitOf(MODELS_CONFIG[chat.selected])]]
                       ELSE [chat EXCEPT !.sends = @ + 1, !.outcome = r.outcome]
    /\ ChatUnchanged

\* send_request: the model is read again, the payload posted with
\* "options": {"num_ctx": context_limit}
SendRequest(t) ==
    /\ chat.threads[t].pc = "started"
    /\ chat' = [chat EXCEPT !.threads[t] =
                   [pc |-> "posted", user_len |-> chat.threads[t].user_len,
                    selected_model |-> chat.selected,
                    num_ctx |-> chat.threads[t].dynamic_context,
                    limit_read |-> chat.threads[t].limit_read]]
    /\ ChatUnchanged

\* update_conversation, scheduled by send_request once the reply or the
\* request error is there
UpdateConversation(t) ==
    /\ chat.threads[t].pc = "posted"
    /\ chat' = [chat EXCEPT !.waiting = FALSE, !.threads[t] = Idle]
    /\ ChatUnchanged

NextChat ==
    \/ ChangeModel
    \/ SendMessage
    \/ \E t \in ChatThreads :
           \/ SendRequest(t)
           \/ UpdateConversation(t)

SpecChat == InitChat /\ [][NextChat]_vars

(***************************************************************************)
(* Properties of the index store                                           *)
(***************************************************************************)
CurrentHash == compute_repo_hash(tree, FILE_EXTENSIONS)

\* A step of start_embedding_thread that reaches the check of the embed file
LoadStep == loads' = loads + 1

\* The step starts exactly one thread, fresh, with the given hash
StartsThread(current_hash) ==
    \E w \in Threads :
        /\ Free(w)
        /\ workers'[w].pc = "list"
        /\ workers'[w].current_hash = current_hash
        /\ workers'[w].results = <<>>
        /\ \A u \in Threads \ {w} : workers'[u] = workers[u]

\* C2: a load that finds an embed file with the current hash takes over its
\* chunk list, starts no thread (so no embedding call is made) and leaves the
\* file alone; an embed file written by a build since whose start the tree
\* has not changed has the current hash.
C2_FreshCacheReused ==
    /\ [](embed_file.state = "complete" /\ file_built_at = touches
             => embed_file.repo_hash = CurrentHash)
    /\ [][(LoadStep /\ embed_file.state = "complete"
                    /\ embed_file.repo_hash = CurrentHash)
              => /\ global_embeddings_data' = embed_file.embeddings
                 /\ embed_file' = embed_file
                 /\ workers' = workers
                 /\ ui' = Returned("fresh")]_vars

\* The second load, after a build of the unchanged tree has ended
C2_Witness ==
    /\ ui = Returned("fresh")
    /\ loads = 2
    /\ touches = 0
    /\ \A w \in Threads : Free(w)
    /\ embed_file.state = "complete"
    /\ Len(embed_file.embeddings) = 3
    /\ global_embeddings_data = embed_file.embeddings

\* What the two answers to the dialog do; AnswerStep: the dialog is closed
AnswerStep == ui.pc = "asking" /\ ui'.pc = "idle"

UsesStale ==
    /\ global_embeddings_data' = ui.data.embeddings
    /\ embed_file' = embed_file
    /\ workers' = workers

Rebuilds ==
    /\ StartsThread(ui.current_hash)
    /\ global_embeddings_data' = global_embeddings_data
    /\ embed_file' = embed_file

\* The error box for the chunk size entry, and nothing else
RejectsMaxTokens ==
    /\ ui' = Returned("bad_max_tokens")
    /\ workers' = workers
    /\ global_embeddings_data' = global_embeddings_data
    /\ embed_file' = embed_file

\* A load that finds an embed file with another hash only opens the dialog
StaleOnlyAsks ==
    (LoadStep /\ embed_file.state = "complete" /\ embed_file.repo_hash # CurrentHash)
        => /\ ui'.pc = "asking"
           /\ ui'.data = embed_file
           /\ global_embeddings_data' = global_embeddings_data
           /\ embed_file' = embed_file
           /\ workers' = workers

RECURSIVE ExpectedCalls(_, _, _, _)
ExpectedCalls(code_files, texts, max_chars, k) ==
    IF k > Len(code_files) THEN <<>>
    ELSE LET chunks == IF texts[k] = <<>> THEN <<>>
                       ELSE chunk_file_text(texts[k], max_chars)
         IN  [i \in 1..Len(chunks) |->
                 [file |-> code_files[k], chunk_index |-> i - 1, chunk |-> chunks[i]]]
             \o ExpectedCalls(code_files, texts, max_chars, k + 1)

CallOf(e) == [file |-> e.file, chunk_index |-> e.chunk_index, chunk |-> e.chunk]

CallsOf(entries) == [i \in 1..Len(entries) |-> CallOf(entries[i])]

Succeeded(e) == e.ok

BuildLoopDone(w) == workers[w].pc = "publish"

\* C5: whatever the embedding calls return, a build loop that has ended has
\* read every listed file and made the call for every chunk of every file
\* read; its chunk list holds exactly the calls that returned an embedding,
\* in order; the list then becomes the in-memory index and the thread goes
\* on to write the embed file, which, unless the write itself fails, then
\* holds the hash and the in-memory index.
C5_PartialFailureTolerated ==
    /\ [](\A w \in Threads :
            /\ workers[w].pc \in {"read", "embed", "publish"}
                  => /\ CallsOf(workers[w].results)
                           = CallsOf(SelectSeq(workers[w].log, Succeeded))
                     /\ \A i \in 1..Len(workers[w].results) :
                            Truthy(workers[w].results[i].embedding)
            /\ BuildLoopDone(w)
                  => /\ Len(workers[w].texts) = Len(workers[w].code_files)
                     /\ CallsOf(workers[w].log)
                           = ExpectedCalls(workers[w].code_files, workers[w].texts,
                                           workers[w].max_chars, 1))
    /\ [][\A w \in Threads :
            /\ (BuildLoopDone(w) /\ workers'[w] # workers[w])
                  => /\ global_embeddings_data' = workers[w].results
                     /\ workers'[w].pc = "open"
            /\ (workers[w].pc = "dump" /\ workers'[w] # workers[w])
                  => embed_file' \in {Complete(workers[w].current_hash,
                                               global_embeddings_data), Partial}]_vars

\* A single build in which the call for the first chunk failed and the two
\* after it succeeded has ended and has written the embed file
C5_Witness ==
    /\ loads = 1
    /\ touches = 0
    /\ \E w \in Threads : workers[w].pc = "ended"
    /\ embed_file.state = "complete"
    /\ embed_file.embeddings = global_embeddings_data
    /\ Len(embed_file.embeddings) = 2
    /\ embed_file.embeddings[1].chunk = <<"e">>
    /\ embed_file.embeddings[2].chunk = <<"x", "y">>

\* C11: a build that a cancellation has been requested for stops at its next
\* point between two files (the top of the loop over the files): it ends
\* there instead of reading the next file, and the embed file stays as it is.
C11_CancelStopsBuild ==
    [][\A w \in Threads :
          (/\ workers[w].pc = "read"
           /\ w \in cancel_requested
           /\ workers'[w] # workers[w])
              => /\ workers'[w].pc = "ended"
                 /\ embed_file' = embed_file]_vars

Running(w) == workers[w].pc \notin {"idle", "ended"}

\* C12: at no time are two run_processing threads alive for the repository.
C12_OneBuildAtATime ==
    Cardinality({w \in Threads : Running(w)}) <= 1

\* C13: the embed file on disk is at all times absent (never built) or a
\* complete {repo_hash, embeddings} object, never empty or cut short.
C13_FileNeverHalfWritten ==
    embed_file.state \in {"absent", "complete"}

\* The button was pressed with a query, an index and a valid token limit, so
\* that the query was sent to the embedding service
QueryWasSent ==
    /\ button_call.pc = "done"
    /\ PyStrip(button_call.query_entry) # <<>>
    /\ button_call.embeddings_data # <<>>
    /\ IsInt(button_call.max_entry)

\* The service did not deliver an embedding: no connection, a status other
\* than 200, a body that is not JSON, no list of embeddings or an empty one
QueryEmbeddingFailed ==
    \/ button_call.response.kind = "exception"
    \/ button_call.response.status_code # 200
    \/ ~button_call.response.json
    \/ ~button_call.response.has_key
    \/ button_call.response.embeddings = <<>>

\* C14: when the embedding of the query fails, no similarity is computed,
\* nothing is put into the prompt widget or saved, and the only message is
\* the error "Failed to embed the query." (no success message).
C14_QueryEmbeddingFailureAborts ==
    (QueryWasSent /\ QueryEmbeddingFailed)
        => /\ button_call.out.sims = 0
           /\ button_call.out.shown = <<>>
           /\ button_call.out.saved = <<>>
           /\ button_call.out.boxes = <<"Failed to embed the query.">>

\* The service answered 500 to the query, with an index of one chunk loaded
C14_Witness ==
    /\ QueryWasSent
    /\ button_call.response.kind = "response"
    /\ button_call.response.status_code = 500
    /\ Len(button_call.embeddings_data) = 1
    /\ button_call.out.boxes = <<"Failed to embed the query.">>

HashDone == hash_call.pc = "done"

\* C15: for the same files with the same mtimes and sizes, compute_repo_hash
\* returns the same fingerprint whatever the order of the traversal.
C15_HashIgnoresTraversalOrder ==
    (HashDone /\ hash_call.op = "again")
        => hash_call.hash_after = hash_call.hash_before

\* The traversal yielded three files in scope in another order
C15_Witness ==
    /\ HashDone
    /\ hash_call.op = "again"
    /\ Len(tree) = 3
    /\ \A k \in DOMAIN tree : tree[k].path \in {PathA, PathB, PathSub}
    /\ tree[1] = hash_call.repo_before[3]
    /\ tree[3] = hash_call.repo_before[1]

\* The paths of the pool that are in scope, and those that are not: below
\* Media/, or with the extension .md
PathsInScope == {PathA, PathB, PathSub}
PathsOutOfScope == {PathIgnored, PathOther}

SizeOrMtimeChanged ==
    LET old == FileAt(hash_call.repo_before, hash_call.path)
        new == FileAt(tree, hash_call.path)
    IN  old.mtime # new.mtime \/ Len(old.text) # Len(new.text)

\* C16: a file in scope that is added or removed, or whose size or mtime
\* changes, changes the fingerprint; a file below an ignored directory or
\* with another extension that is added, removed or changed does not.
C16_HashTracksFilesInScope ==
    (HashDone /\ hash_call.op \in {"add", "remove", "modify"})
        => /\ (hash_call.path \in PathsInScope
                 /\ (hash_call.op = "modify" => SizeOrMtimeChanged))
                  => hash_call.hash_after # hash_call.hash_before
           /\ hash_call.path \in PathsOutOfScope
                  => hash_call.hash_after = hash_call.hash_before

\* A file was added below Media/ to a tree with two files in scope
C16_Witness ==
    /\ HashDone
    /\ hash_call.op = "add"
    /\ hash_call.path = PathIgnored
    /\ Len(tree) = 3
    /\ HasFile(tree, PathA)
    /\ HasFile(tree, PathSub)
    /\ hash_call.hash_after = hash_call.hash_before
    /\ hash_call.hash_after # <<>>

Listed(r) == \E k \in DOMAIN recent : recent[k] = r

\* C17: the saved list never has more than 10 entries nor an entry twice;
\* it is in the order of last use, most recent first (so a repository named
\* again is at the front and the others keep their order), and a repository
\* used before is missing only if the list is full and all 10 listed ones
\* were used after it (so the 11th drops the least recent one only).
C17_RecentListBoundedAndOrdered ==
    /\ Len(recent) <= 10
    /\ \A i, j \in DOMAIN recent : i # j => recent[i] # recent[j]
    /\ \A i, j \in DOMAIN recent :
           i < j => recent_call.last_used[recent[i]] > recent_call.last_used[recent[j]]
    /\ \A k \in DOMAIN recent : recent_call.last_used[recent[k]] > 0
    /\ \A r \in Repos :
           (recent_call.last_used[r] > 0 /\ ~Listed(r))
               => /\ Len(recent) = 10
                  /\ recent_call.last_used[r] < recent_call.last_used[recent[10]]

\* Eleven repositories were added, which dropped the first, and then the
\* third was added again and moved to the front
C17_Witness ==
    /\ recent_call.seen = 11
    /\ recent_call.calls = 12
    /\ Len(recent) = 10
    /\ ~Listed(1)
    /\ recent[1] = 3
    /\ recent[2] = 11
    /\ recent[10] = 2

\* The threads that are inside embed_chunk, waiting for the service
InFlight == {w \in Threads : workers[w].pc = "embed"}

\* The records of one file are contiguous and their chunk_index increases
\* strictly, so that no (file, chunk_index) occurs twice
FileWiseAscending(index) ==
    \A i, j \in DOMAIN index :
        (i < j /\ index[i].file = index[j].file)
            => /\ index[i].chunk_index < index[j].chunk_index
               /\ \A k \in i..j : index[k].file = index[i].file

PositionIn(files, file) == CHOOSE k \in DOMAIN files : files[k] = file

\* The thread has made its calls so far in the order of the files it listed
\* and, within a file, of the chunks: they are the first of the calls owed
\* for the files read so far
CallsInOrder(w) ==
    LET done == Len(workers[w].texts)
        owed == ExpectedCalls(SubSeq(workers[w].code_files, 1, done),
                              workers[w].texts, workers[w].max_chars, 1)
        made == CallsOf(workers[w].log)
    IN  /\ Len(made) <= Len(owed)
        /\ made = SubSeq(owed, 1, Len(made))
        /\ \A i, j \in DOMAIN workers[w].results :
               i < j => PositionIn(workers[w].code_files, workers[w].results[i].file)
                           <= PositionIn(workers[w].code_files,
                                         workers[w].results[j].file)

\* The ordering of the calls of each build and of the records of every index
C18_IndexOrdered ==
    /\ \A w \in Threads :
           workers[w].pc \in {"read", "embed", "publish"}
               => CallsInOrder(w) /\ FileWiseAscending(workers[w].results)
    /\ FileWiseAscending(global_embeddings_data)
    /\ embed_file.state = "complete" => FileWiseAscending(embed_file.embeddings)

\* C18: never are two embedding calls in flight at once; every build makes
\* its calls file by file in the order of the traversal and chunk by chunk
\* in ascending chunk_index, and in every index the records of a file are
\* contiguous with strictly increasing chunk_index.
C18_BuildOrdering ==
    /\ Cardinality(InFlight) <= 1
    /\ C18_IndexOrdered

ChunkCountOf(n, max_chars) == IF n <= max_chars THEN 1 ELSE CeilDiv(n, max_chars)

RECURSIVE SumChunkCounts(_, _, _)
SumChunkCounts(texts, max_chars, k) ==
    IF k > Len(texts) THEN 0
    ELSE ChunkCountOf(Len(texts[k]), max_chars) + SumChunkCounts(texts, max_chars, k + 1)

AllReadAndEmbedded(w) ==
    /\ BuildLoopDone(w)
    /\ \A k \in DOMAIN workers[w].texts : workers[w].texts[k] # <<>>
    /\ \A i \in DOMAIN workers[w].log : workers[w].log[i].ok

\* C19: a build that read a non-empty text from every file and got an
\* embedding from every call returns as many records as the files have
\* chunks: per file 1 if len <= max_chars, else ceil(len / max_chars).
C19_RecordCountIsChunkCount ==
    \A w \in Threads :
        AllReadAndEmbedded(w)
            => Len(workers[w].results)
                  = SumChunkCounts(workers[w].texts, workers[w].max_chars, 1)

\* Files of 5 and 2 characters with max_chars = 4: 2 + 1 = 3 records
C19_Witness ==
    \E w \in Threads :
        /\ AllReadAndEmbedded(w)
        /\ workers[w].max_chars = 4
        /\ Len(workers[w].texts) = 2
        /\ Len(workers[w].texts[1]) = 5
        /\ Len(workers[w].texts[2]) = 2
        /\ Len(workers[w].results) = 3

\* C20: when the header and the footer alone use up max_prompt_tokens or
\* more, the context block of the prompt is empty: no character of any
\* chunk is appended.
C20_NoBudgetNoContext ==
    (/\ PromptRanked
     /\ TokensOf(Header(prompt_call.query_text)
                    \o Footer(prompt_call.custom_instructions))
           >= prompt_call.max_prompt_tokens)
        => PromptOut.context_text = <<>>

\* The first n characters of s
FirstChars(s, n) == SubSeq(s, 1, Min(Max(n, 0), Len(s)))

\* The budget left when the i-th of the renderings rs has its turn
RECURSIVE BudgetAt(_, _, _)
BudgetAt(rs, available, i) ==
    IF i <= 1 THEN available
    ELSE BudgetAt(rs, available, i - 1) - TokensOf(rs[i - 1])

\* The context block the claim describes for the renderings rs and the
\* budget available: the first j in full, all of which fit at their turn,
\* then the first available * 4 characters of the next one, if there is one
ShapedContext(rs, available) ==
    LET FitsAt(i) == TokensOf(rs[i]) <= BudgetAt(rs, available, i)
        j == CHOOSE m \in 0..Len(rs) :
                 /\ \A i \in 1..m : FitsAt(i)
                 /\ m < Len(rs) => ~FitsAt(m + 1)
    IN  IF j = Len(rs) THEN Concat(rs)
        ELSE Concat(SubSeq(rs, 1, j))
                 \o FirstChars(rs[j + 1], BudgetAt(rs, available, j + 1) * 4)

PromptBudget ==
    prompt_call.max_prompt_tokens
        - TokensOf(Header(prompt_call.query_text)
                       \o Footer(prompt_call.custom_instructions))

\* C21: the context block is the renderings of the first j selected chunks
\* in full, each fitting in the budget left at its turn, followed, if chunk
\* j+1 exists and does not fit, by exactly the first available * 4
\* characters of its rendering, and by nothing else.
C21_ContextShape ==
    PromptRanked
        => PromptOut.context_text
               = ShapedContext(Renderings(PromptOut.selected_items), PromptBudget)

\* The same for the calls in which header and footer leave a budget of 0 or
\* more tokens
C21_ContextShapeWithinBudget ==
    (PromptRanked /\ PromptBudget >= 0) => C21_ContextShape

ZeroMagnitude(v) == \A k \in DOMAIN v : v[k] = 0

\* C22: when one of the two vectors has zero magnitude, cosine_similarity
\* returns 0, without an exception and without a division by zero; for a
\* nonzero vector v, cosine_similarity(v, v) is 1.
C22_CosineZeroAndSelf ==
    cosine_call.pc = "done" =>
        /\ (ZeroMagnitude(cosine_call.vec1) \/ ZeroMagnitude(cosine_call.vec2))
               => /\ ~cosine_call.out.raised
                  /\ cosine_call.out.den2 # 0
                  /\ cosine_call.out.num = 0
        /\ (~ZeroMagnitude(cosine_call.vec1) /\ cosine_call.vec2 = cosine_call.vec1)
               => /\ ~cosine_call.out.raised
                  /\ cosine_call.out.num > 0
                  /\ cosine_call.out.num * cosine_call.out.num = cosine_call.out.den2

\* A zero vector of two coordinates against a nonzero one of one coordinate
C22_Witness ==
    /\ cosine_call.pc = "done"
    /\ cosine_call.vec1 = <<0, 0>>
    /\ cosine_call.vec2 = <<1>>
    /\ cosine_call.out.num = 0
    /\ ~cosine_call.out.raised

\* The step by which a thread whose build loop has ended, with every listed
\* file gone through, makes its whole chunk list the in-memory index
PublishesWhole(w) ==
    /\ workers[w].pc = "publish"
    /\ workers'[w].pc = "open"
    /\ workers[w].file_idx = Len(workers[w].code_files)
    /\ global_embeddings_data' = workers[w].results

\* C23: a retrieval interleaved with a running build never ranks a partially
\* built index.  The in-memory index changes only as a whole: by the single
\* assignment of a thread whose build loop has ended, or by a load that
\* takes the list of the embed file; no step of a build loop changes it, and
\* the index a retrieval ranks is the in-memory index of that moment.
C23_RetrievalReadsWholeIndex ==
    [][ /\ global_embeddings_data' # global_embeddings_data
            => \/ \E w \in Threads : PublishesWhole(w)
               \/ /\ LoadStep
                  /\ embed_file.state = "complete"
                  /\ global_embeddings_data' = embed_file.embeddings
               \/ /\ AnswerStep
                  /\ global_embeddings_data' = ui.data.embeddings
        /\ \A w \in Threads :
               InBuildLoop(w) /\ workers'[w] # workers[w]
                   => global_embeddings_data' = global_embeddings_data
        /\ button_call.pc = "checked" /\ button_call'.pc = "ranked"
            => button_call'.index = global_embeddings_data ]_vars

\* A retrieval has ranked the result of an earlier build while a thread is in
\* its build loop with some chunks embedded already
C23_Witness ==
    /\ button_call.pc = "ranked"
    /\ button_call.index # <<>>
    /\ \E w \in Threads :
           /\ workers[w].pc = "embed"
           /\ workers[w].results # <<>>
           /\ workers[w].results # button_call.index

\* The tree holds a file in scope that is not empty
HasCode(repo) ==
    \E k \in DOMAIN repo : InScope(repo[k].path, FILE_EXTENSIONS) /\ repo[k].text # <<>>

\* C24: an index is created only by a successful embedding pass: over a tree
\* with a non-empty file in scope, no load takes the fresh-cache path with an
\* empty chunk list, as a build whose embedding calls all failed would have
\* left it.
C24_IndexOnlyFromSuccessfulPass ==
    [][ LoadStep /\ ui'.outcome = "fresh" /\ HasCode(tree)
            => global_embeddings_data' # <<>> ]_vars

\* The chunk sizes a build can have been started with
BuildMaxChars == {PyInt(e) * 4 : e \in {x \in MaxTokensEntries : IsInt(x)}}

\* The record is a chunk of the file as the tree has it now.  In this model
\* the text of a path is determined by its mtime, so a chunk read from a file
\* with the (path, mtime, size) of the current tree is a chunk of the
\* current text.
ChunkOfCurrentTree(rec) ==
    /\ HasFile(tree, rec.file)
    /\ \E max_chars \in BuildMaxChars :
           LET chunks == chunk_file_text(read_file(tree, rec.file), max_chars)
           IN  /\ rec.chunk_index < Len(chunks)
               /\ chunks[rec.chunk_index + 1] = rec.chunk

\* C25: whenever the embed file is one a load takes the fresh-cache path on
\* (it is complete and its stored hash is the hash of the current tree),
\* every chunk in it was read from a file as the current tree has it.
C25_FingerprintDescribesChunks ==
    CacheDecision(embed_file, CurrentHash) = "fresh"
        => \A k \in DOMAIN embed_file.embeddings :
               ChunkOfCurrentTree(embed_file.embeddings[k])

\* The embed file exists and cannot be read or parsed
Unparsable == embed_file.state \in {"truncated", "partial", "unreadable", "not_object"}

TokensFor(user_len) == IF user_len \div 4 < 1 THEN 1 ELSE user_len \div 4

ContextFor(user_len, limit) ==
    LET wanted == IF TokensFor(user_len) <= 4096 THEN 8192 ELSE 2 * TokensFor(user_len)
    IN  IF wanted < limit THEN wanted ELSE limit

\* The step is a call of send_message that ends the given way
SendStep(outcome) == chat'.sends = chat.sends + 1 /\ chat'.outcome = outcome

\* C27: every request started, and every request posted, is for a prompt of
\* at most context_limit - 4096 estimated tokens and asks for the context
\* min(context_limit, 8192 if tokens <= 4096 else 2 * tokens), which is at
\* most the limit; context_limit is the configured limit of the model
\* selected when send_message ran.  A call that rejects the prompt starts no
\* thread and does not touch the waiting flag.
C27_RequestWithinContextLimit ==
    /\ [](\A t \in ChatThreads :
            /\ chat.threads[t].pc = "started"
                  => /\ TokensFor(chat.threads[t].user_len)
                            <= chat.threads[t].limit_read - 4096
                     /\ chat.threads[t].dynamic_context
                            = ContextFor(chat.threads[t].user_len,
                                         chat.threads[t].limit_read)
                     /\ chat.threads[t].dynamic_context <= chat.threads[t].limit_read
            /\ chat.threads[t].pc = "posted"
                  => /\ TokensFor(chat.threads[t].user_len)
                            <= chat.threads[t].limit_read - 4096
                     /\ chat.threads[t].num_ctx
                            = ContextFor(chat.threads[t].user_len,
                                         chat.threads[t].limit_read)
                     /\ chat.threads[t].num_ctx <= chat.threads[t].limit_read)
    /\ [][ /\ \A t \in ChatThreads :
                  chat.threads[t].pc = "idle" /\ chat'.threads[t].pc = "started"
                      => /\ SendStep("sent")
                         /\ chat'.waiting
                         /\ chat'.threads[t].limit_read
                                = ContextLimitOf(MODELS_CONFIG[chat.selected])
           /\ SendStep("rejected")
                  => /\ chat'.threads = chat.threads
                     /\ chat'.waiting = chat.waiting ]_vars

\* A prompt of 4104 tokens was sent to the model with the limit 8200 and
\* posted with the context 8200; the next prompt has been rejected while
\* that request is awaited
C27_Witness ==
    /\ chat.outcome = "rejected"
    /\ chat.waiting
    /\ \E t \in ChatThreads :
           /\ chat.threads[t].pc = "posted"
           /\ chat.threads[t].user_len = 16416
           /\ chat.threads[t].num_ctx = 8200
====
